---- MODULE Spec2Model ----
(***************************************************************************)
(* Chunk lifecycle of me-notes: the client queue and retry loop of         *)
(* frontend/src/App.jsx driving the /transcribe handler of                 *)
(* backend/server.js (ffmpeg, then whisper-cli, then cleanup).             *)
(*                                                                         *)
(* Time is abstract.  The durations of the upload and of the two external  *)
(* subprocesses are not fixed by the program, so a timer may fire in any   *)
(* order relative to a subprocess exit.  The one ordering the constants    *)
(* themselves fix is kept: the client's 600000 ms abort (App.jsx:34) is    *)
(* armed before the handler's 300000 ms ffmpeg timer (server.js:56) and    *)
(* outlasts it, so the abort only fires once the ffmpeg stage is over.     *)
(***************************************************************************)
EXTENDS Integers, Sequences, FiniteSets, TLC

\* ---------------------------------------------------------------- bounds
MaxChunks == 3      \* chunks the recorders deliver over one run
MaxExpiries == 1    \* deadlines (300000, 540000, 600000 ms) that expire in one run

\* ------------------------------------------------------ program constants
MAX_RETRIES == 3

\* --------------------------------------------------------------- strings
\* Text is a sequence of characters; " " stands for any whitespace
\* character and "a" for any other.

\* What whisper-cli may print on stdout when it exits zero.
Outputs == {<< >>, <<" ">>, <<"a">>, <<" ", "a", " ">>}

RECURSIVE TrimStart(_)
TrimStart(s) ==
    IF s = << >> THEN << >>
    ELSE IF Head(s) = " " THEN TrimStart(Tail(s)) ELSE s

RECURSIVE TrimEnd(_)
TrimEnd(s) ==
    IF s = << >> THEN << >>
    ELSE IF s[Len(s)] = " " THEN TrimEnd(SubSeq(s, 1, Len(s) - 1)) ELSE s

\* String.prototype.trim
Trim(s) == TrimEnd(TrimStart(s))

VARIABLES
    recState,            \* MediaRecorder: "none", "recording", "stopping", "stopped", "inactive"
    recording,           \* React state `recording`
    session,             \* the recording session: startRecording calls so far
                         \* that were followed by a chunk, plus one
    chunkCounterRef,     \* chunkCounterRef.current
    processingQueueRef,  \* processingQueueRef.current
    isProcessingRef,     \* isProcessingRef.current
    processing,          \* React state `processing`
    processingChunk,     \* React state `processingChunk`
    transcripts,         \* React state `transcripts`
    errors,              \* React state `errors`
    jobs,                \* processChunk executions that have not returned
    timers,              \* pending setTimeout(() => processQueue(), 500)
    reqs,                \* /transcribe invocations on the server
    serverUp,            \* the backend process runs and listens on port 3000
    installed,           \* which of ffmpeg, the model file and whisper-cli exist
    expiries,            \* deadlines that have expired so far
    hist,                \* per delivered chunk: its session and number, its
                         \* status, the fragments and ErrorRecords recorded
                         \* for it
    lastDone             \* the processChunk call that ended last: its chunk,
                         \* the fetches it had made and the ErrorRecords its
                         \* success removed

vars == <<recState, recording, session, chunkCounterRef, processingQueueRef,
          isProcessingRef, processing, processingChunk, transcripts, errors,
          jobs, timers, reqs, serverUp, installed, expiries, hist, lastDone>>

serverVars == <<reqs, serverUp, installed, expiries>>

clientQueueVars == <<processingQueueRef, isProcessingRef, processing,
                     processingChunk, jobs, timers>>

clientQueueVarsNoJobs == <<processingQueueRef, isProcessingRef, processing,
                           processingChunk, timers>>

\* ------------------------------------------------------------- server data
NoResp == [status |-> 0, transcript |-> << >>, error |-> ""]

FreeReq ==
    [stage |-> "free",      \* where the handler is: free, ffmpeg, whisper, done
     raw |-> FALSE,         \* inputPath exists
     wav |-> FALSE,         \* wavPath exists
     ffRun |-> FALSE,       \* the ffmpeg subprocess is running
     ffOpened |-> FALSE,    \* ffmpeg has opened its output file
     ffTimer |-> FALSE,     \* the 300000 ms timer is armed
     ffExit |-> "none",     \* how ffmpeg ended: ok, failed, ENOENT
     whRun |-> FALSE,       \* the whisper-cli subprocess is running
     whTimer |-> FALSE,     \* the 540000 ms timer is armed
     timedOut |-> "none",   \* the stage whose timer fired
     responses |-> 0,       \* calls of res.json for this request
     resp |-> NoResp,       \* the response on its way to the client
     waiter |-> FALSE]      \* the client's fetch is still pending

\* A request outlives its response only when one of its deadlines expired,
\* so with one fetch pending these are all the requests alive at a time.
Slots == 1..(MaxExpiries + 1)

\* What is installed does not change during a run.  A missing ffmpeg hides
\* the later checks, and a missing model hides the check for the binary, so
\* one installation per first failing check covers every combination.
Installations ==
    {[ffmpeg |-> TRUE, model |-> TRUE, bin |-> TRUE],
     [ffmpeg |-> FALSE, model |-> TRUE, bin |-> TRUE],
     [ffmpeg |-> TRUE, model |-> FALSE, bin |-> TRUE],
     [ffmpeg |-> TRUE, model |-> TRUE, bin |-> FALSE]}

FreeSlots == {s \in Slots : reqs[s].stage = "free"}

\* A request nothing can act on any more gives its slot back.
Settle(r) ==
    IF /\ r.stage = "done" /\ ~r.ffRun /\ ~r.whRun /\ ~r.waiter
       /\ ~r.raw /\ ~r.wav /\ r.responses <= 1
    THEN FreeReq ELSE r

\* cleanupFiles(inputPath, wavPath)
cleanupFiles(r) == [r EXCEPT !.raw = FALSE, !.wav = FALSE]

\* res.status(s).json(...): the first call sends the response; every call counts.
Respond(r, status, transcript, error) ==
    [r EXCEPT !.responses = @ + 1,
              !.resp = IF r.responses = 0
                       THEN [status |-> status, transcript |-> transcript,
                             error |-> error]
                       ELSE @]

\* The message of the catch block, from e.message.
CatchMessage(kind) ==
    CASE kind = "timeout" -> "Processing timeout"
      [] kind = "ENOENT" -> "Required tool not found"
      [] OTHER -> "Command failed"

\* catch (e): cleanupFiles, then the 500 response; the handler returns.
CatchBlock(r, kind) ==
    [Respond(cleanupFiles(r), 500, << >>, CatchMessage(kind))
        EXCEPT !.stage = "done"]

\* ------------------------------------------------------------------ Init
Init ==
    /\ recState = "none"
    /\ recording = FALSE
    /\ session = 1
    /\ chunkCounterRef = 0
    /\ processingQueueRef = << >>
    /\ isProcessingRef = FALSE
    /\ processing = FALSE
    /\ processingChunk = 0
    /\ transcripts = << >>
    /\ errors = << >>
    /\ jobs = {}
    /\ timers = 0
    /\ reqs = [s \in Slots |-> FreeReq]
    /\ serverUp \in BOOLEAN
    /\ installed \in Installations
    /\ expiries = 0
    /\ hist = << >>
    /\ lastDone = [uid |-> 0, attempts |-> 0, removed |-> 0]

\* ---------------------------------------------------------- client helpers
\* A processChunk execution: its position (pc: at the fetch of the current
\* attempt, or in the backoff wait after it), the request that serves the
\* fetch, the fetches made so far and the duration of the running backoff
\* timer in ms (0: none).
Job(uid, chunkNumber) ==
    [uid |-> uid, chunkNumber |-> chunkNumber, attempt |-> 1, pc |-> "fetch",
     req |-> 0, sent |-> 1, wait |-> 0]

\* processingQueueRef.current.push({ blob, chunkNumber })
Enqueue(q, item) == Append(q, item)

\* Variant of Dequeue: processingQueueRef.current.pop(), the newest chunk first.
DequeueNewest(q) == [item |-> q[Len(q)], rest |-> SubSeq(q, 1, Len(q) - 1)]

\* processingQueueRef.current.shift()
Dequeue(q) == [item |-> Head(q), rest |-> Tail(q)]

\* Variant of ShouldStart: ondataavailable only pushes and never calls
\* processQueue().
ShouldStartNever(busy) == FALSE

\* Variant of ShouldStart: processQueue() called without looking at the flag.
ShouldStartUnguarded(busy) == TRUE

\* if (!isProcessingRef.current)
ShouldStart(busy) == ~busy

\* Variant of IsFinalAttempt: the comparison one attempt early.
IsFinalAttemptEarly(attempt) == attempt = MAX_RETRIES - 1

\* if (attempt === retries)
IsFinalAttempt(attempt) == attempt = MAX_RETRIES

\* Variant of IsTranscript: any transcript field of a 200 response is taken.
IsTranscriptUnchecked(t) == TRUE

\* json.transcript && json.transcript.trim()
IsTranscript(t) == t # << >> /\ Trim(t) # << >>

\* Variant of FilterErrors: the success branch without its setErrors call.
FilterErrorsKeepAll(e, chunkNumber) == e

\* e.filter((err) => err.chunk !== chunkNumber)
FilterErrors(e, chunkNumber) == SelectSeq(e, LAMBDA err : err.chunk # chunkNumber)

NewChunk(chunkNumber) ==
    [session |-> session, chunkNumber |-> chunkNumber, status |-> "Queued",
     frags |-> 0, errs |-> 0]

\* processQueue() up to its await, on backlog q: the body of processChunk runs
\* synchronously up to the first fetch.
ProcessQueue(q, h) ==
    IF Len(q) = 0
    THEN /\ isProcessingRef' = FALSE
         /\ processing' = FALSE
         /\ processingQueueRef' = q
         /\ hist' = h
         /\ UNCHANGED <<processingChunk, jobs>>
    ELSE LET d == Dequeue(q) IN
         /\ isProcessingRef' = TRUE
         /\ processing' = TRUE
         /\ processingQueueRef' = d.rest
         /\ processingChunk' = d.item.chunkNumber
         /\ jobs' = jobs \cup {Job(d.item.uid, d.item.chunkNumber)}
         /\ hist' = [h EXCEPT ![d.item.uid].status = "InFlight"]

\* Variant of ProcessQueueTail: without the setTimeout that processes the
\* next chunk of the backlog.
ProcessQueueTailNoTimer ==
    /\ UNCHANGED <<processingQueueRef, timers>>
    /\ IF Len(processingQueueRef) > 0
       THEN UNCHANGED <<isProcessingRef, processing, processingChunk>>
       ELSE /\ isProcessingRef' = FALSE
            /\ processing' = FALSE
            /\ processingChunk' = 0

\* processQueue() after processChunk has returned or thrown.
ProcessQueueTail ==
    /\ UNCHANGED processingQueueRef
    /\ IF Len(processingQueueRef) > 0
       THEN /\ timers' = timers + 1
            /\ UNCHANGED <<isProcessingRef, processing, processingChunk>>
       ELSE /\ isProcessingRef' = FALSE
            /\ processing' = FALSE
            /\ processingChunk' = 0
            /\ UNCHANGED timers

\* recorder.ondataavailable
OnDataAvailable(hasData) ==
    IF hasData
    THEN LET chunkNumber == chunkCounterRef + 1
             uid == Len(hist) + 1
             q == Enqueue(processingQueueRef,
                          [chunkNumber |-> chunkNumber, uid |-> uid])
             h == Append(hist, NewChunk(chunkNumber))
         IN /\ chunkCounterRef' = chunkNumber
            /\ IF ShouldStart(isProcessingRef)
               THEN ProcessQueue(q, h)
               ELSE /\ processingQueueRef' = q
                    /\ hist' = h
                    /\ UNCHANGED <<isProcessingRef, processing,
                                   processingChunk, jobs>>
    ELSE UNCHANGED <<chunkCounterRef, processingQueueRef, hist,
                     isProcessingRef, processing, processingChunk, jobs>>

\* Variant of RecordSuccess: the success branch without its `return json`, so
\* the loop goes on to the next attempt.
RecordSuccessNoReturn(j, t) ==
    /\ transcripts' = Append(transcripts,
                             [text |-> t, chunk |-> j.chunkNumber, uid |-> j.uid])
    /\ errors' = FilterErrors(errors, j.chunkNumber)
    /\ hist' = [hist EXCEPT ![j.uid].status = "Succeeded",
                            ![j.uid].frags = @ + 1]
    /\ lastDone' = [uid |-> j.uid, attempts |-> j.sent,
                    removed |-> Len(errors) - Len(FilterErrors(errors, j.chunkNumber))]
    /\ IF j.attempt + 1 <= MAX_RETRIES
       THEN /\ jobs' = (jobs \ {j}) \cup
                          {[j EXCEPT !.attempt = @ + 1, !.pc = "fetch", !.req = 0,
                                     !.sent = @ + 1]}
            /\ UNCHANGED clientQueueVarsNoJobs
       ELSE /\ jobs' = jobs \ {j}
            /\ ProcessQueueTail

\* The success branch of processChunk, then the rest of processQueue.
RecordSuccess(j, t) ==
    /\ transcripts' = Append(transcripts,
                             [text |-> t, chunk |-> j.chunkNumber, uid |-> j.uid])
    /\ errors' = FilterErrors(errors, j.chunkNumber)
    /\ jobs' = jobs \ {j}
    /\ hist' = [hist EXCEPT ![j.uid].status = "Succeeded",
                            ![j.uid].frags = @ + 1]
    /\ lastDone' = [uid |-> j.uid, attempts |-> j.sent,
                    removed |-> Len(errors) - Len(FilterErrors(errors, j.chunkNumber))]
    /\ ProcessQueueTail

\* Variant of BackoffDelay: the exponent one too high (2 s, 4 s).
BackoffDelayLate(attempt) == 1000 * 2^attempt

\* 1000 * Math.pow(2, attempt - 1), in ms
BackoffDelay(attempt) == 1000 * 2^(attempt - 1)

\* new Error(message), or the AbortError fetch rejects with.
Err(name, message) == [name |-> name, message |-> message]

\* Variant of ErrorMsg: without the test for an AbortError.
ErrorMsgNoAbortCase(err) ==
    IF err.message # "" THEN err.message ELSE "Unknown error"

\* err.name === "AbortError" ? "Request timeout" : err.message || "Unknown error"
ErrorMsg(err) ==
    IF err.name = "AbortError" THEN "Request timeout"
    ELSE IF err.message # "" THEN err.message ELSE "Unknown error"

\* Variant of AttemptFailed: every failed attempt records its ErrorRecord,
\* not only the last one.
AttemptFailedRecordsEach(j, err) ==
    /\ errors' = Append(errors,
                        [chunk |-> j.chunkNumber, error |-> ErrorMsg(err),
                         uid |-> j.uid])
    /\ UNCHANGED transcripts
    /\ IF IsFinalAttempt(j.attempt)
       THEN /\ jobs' = jobs \ {j}
            /\ hist' = [hist EXCEPT ![j.uid].status = "Failed",
                                    ![j.uid].errs = @ + 1]
            /\ lastDone' = [uid |-> j.uid, attempts |-> j.sent, removed |-> 0]
            /\ ProcessQueueTail
       ELSE /\ jobs' = (jobs \ {j}) \cup
                          {[j EXCEPT !.pc = "backoff", !.req = 0,
                                     !.wait = BackoffDelay(j.attempt)]}
            /\ hist' = [hist EXCEPT ![j.uid].errs = @ + 1]
            /\ UNCHANGED <<lastDone, clientQueueVarsNoJobs>>

\* The catch branch of processChunk: the final attempt records the error and
\* rethrows into processQueue, any other attempt starts its backoff wait.
AttemptFailed(j, err) ==
    IF IsFinalAttempt(j.attempt)
    THEN /\ errors' = Append(errors,
                             [chunk |-> j.chunkNumber, error |-> ErrorMsg(err),
                              uid |-> j.uid])
         /\ jobs' = jobs \ {j}
         /\ hist' = [hist EXCEPT ![j.uid].status = "Failed",
                                 ![j.uid].errs = @ + 1]
         /\ lastDone' = [uid |-> j.uid, attempts |-> j.sent, removed |-> 0]
         /\ ProcessQueueTail
         /\ UNCHANGED transcripts
    ELSE /\ jobs' = (jobs \ {j}) \cup
                       {[j EXCEPT !.pc = "backoff", !.req = 0,
                                  !.wait = BackoffDelay(j.attempt)]}
         /\ UNCHANGED <<transcripts, errors, hist, lastDone, clientQueueVarsNoJobs>>

\* ---------------------------------------------------------- client actions
\* startRecording, after getUserMedia has resolved.  The button calls it only
\* while `recording` is false, and the events of a stopped recorder are
\* queued before the click that starts the next one.
StartRecording ==
    /\ ~recording
    /\ recState \in {"none", "inactive"}
    /\ session' = IF \E u \in DOMAIN hist : hist[u].session = session
                   THEN session + 1 ELSE session
    /\ chunkCounterRef' = 0
    /\ processingQueueRef' = << >>
    /\ recState' = "recording"
    /\ recording' = TRUE
    /\ transcripts' = << >>
    /\ errors' = << >>
    /\ UNCHANGED <<isProcessingRef, processing, processingChunk, jobs, timers,
                   serverVars, hist, lastDone>>

\* A timeslice chunk of the running recorder.
ChunkArrives ==
    /\ recState = "recording"
    /\ Len(hist) < MaxChunks
    /\ OnDataAvailable(TRUE)
    /\ UNCHANGED <<recState, recording, session, transcripts, errors, timers, serverVars, lastDone>>

\* stopRecording
StopRecording ==
    /\ recording
    /\ recState' = IF recState # "inactive" THEN "stopping" ELSE recState
    /\ recording' = FALSE
    /\ UNCHANGED <<session, chunkCounterRef, transcripts, errors, clientQueueVars,
                   serverVars, hist, lastDone>>

\* The last dataavailable event of a stopped recorder; its blob may be empty.
FinalChunk ==
    /\ recState = "stopping"
    /\ \E hasData \in BOOLEAN :
          /\ hasData => Len(hist) < MaxChunks
          /\ OnDataAvailable(hasData)
    /\ recState' = "stopped"
    /\ UNCHANGED <<recording, session, transcripts, errors, timers, serverVars, lastDone>>

\* recorder.onstop
OnStop ==
    /\ recState = "stopped"
    /\ recState' = "inactive"
    /\ IF Len(processingQueueRef) > 0 /\ ~isProcessingRef
       THEN ProcessQueue(processingQueueRef, hist)
       ELSE UNCHANGED <<processingQueueRef, hist, isProcessingRef, processing,
                        processingChunk, jobs>>
    /\ UNCHANGED <<recording, session, chunkCounterRef, transcripts, errors,
                   timers, serverVars, lastDone>>

\* The 500 ms timer set by processQueue fires.
TimerFires ==
    /\ timers > 0
    /\ timers' = timers - 1
    /\ ProcessQueue(processingQueueRef, hist)
    /\ UNCHANGED <<recState, recording, session, chunkCounterRef, transcripts,
                   errors, serverVars, lastDone>>

\* fetch resolves with the handler's response.
FetchResolve(j) ==
    /\ j.pc = "fetch"
    /\ j.req # 0
    /\ reqs[j.req].waiter
    /\ reqs[j.req].resp.status # 0
    /\ LET res == reqs[j.req].resp IN
       /\ reqs' = [reqs EXCEPT ![j.req] =
                      Settle([@ EXCEPT !.waiter = FALSE, !.resp = NoResp])]
       /\ IF res.status = 200
          THEN IF IsTranscript(res.transcript)
               THEN RecordSuccess(j, res.transcript)
               ELSE AttemptFailed(j, Err("Error", "Empty transcript received"))
          ELSE AttemptFailed(j, Err("Error", res.error))
    /\ UNCHANGED <<recState, recording, session, chunkCounterRef, serverUp, installed,
                   expiries>>

\* controller.abort() after 600000 ms: fetch rejects with an AbortError.
ClientAbort(j) ==
    /\ j.pc = "fetch"
    /\ j.req # 0
    /\ reqs[j.req].stage = "whisper"
    /\ expiries < MaxExpiries
    /\ expiries' = expiries + 1
    /\ reqs' = [reqs EXCEPT ![j.req] = Settle([@ EXCEPT !.waiter = FALSE])]
    /\ AttemptFailed(j, Err("AbortError", "The operation was aborted."))
    /\ UNCHANGED <<recState, recording, session, chunkCounterRef, serverUp, installed>>

\* fetch rejects with a network error: the request never reaches the handler
\* (the backend is down, or it takes no further connection), or the backend
\* process has exited before answering it.
NetworkError(j) ==
    /\ j.pc = "fetch"
    /\ IF j.req = 0
       THEN /\ ~serverUp \/ FreeSlots = {}
            /\ UNCHANGED reqs
       ELSE /\ ~serverUp
            /\ reqs[j.req].waiter
            /\ reqs[j.req].resp.status = 0
            /\ reqs' = [reqs EXCEPT ![j.req] = Settle([@ EXCEPT !.waiter = FALSE])]
    /\ AttemptFailed(j, Err("TypeError", "Failed to fetch"))
    /\ UNCHANGED <<recState, recording, session, chunkCounterRef, serverUp,
                   installed, expiries>>

\* The backoff wait is over: attempt++ and the loop condition; the next
\* attempt runs up to its fetch.
BackoffDone(j) ==
    /\ j.pc = "backoff"
    /\ IF j.attempt + 1 <= MAX_RETRIES
       THEN /\ jobs' = (jobs \ {j}) \cup
                          {[j EXCEPT !.attempt = @ + 1, !.pc = "fetch",
                                     !.sent = @ + 1, !.wait = 0]}
            /\ processingChunk' = j.chunkNumber
            /\ UNCHANGED <<hist, lastDone, processingQueueRef, isProcessingRef,
                           processing, timers>>
       ELSE /\ jobs' = jobs \ {j}
            /\ hist' = [hist EXCEPT ![j.uid].status = "Returned"]
            /\ lastDone' = [uid |-> j.uid, attempts |-> j.sent, removed |-> 0]
            /\ ProcessQueueTail
    /\ UNCHANGED <<recState, recording, session, chunkCounterRef, transcripts,
                   errors, serverVars>>

\* ---------------------------------------------------------- server actions
\* Variant of AfterConversion: whisper-cli is started without looking for the
\* model file and the binary.
AfterConversionUnchecked(r) ==
    [r EXCEPT !.stage = "whisper", !.whRun = TRUE, !.whTimer = TRUE]

\* fs.existsSync(modelPath), then fs.existsSync(whisperBin), after ffmpeg has
\* exited zero: a missing file ends the request, otherwise whisper-cli starts.
AfterConversion(r) ==
    IF ~installed.model
    THEN [Respond(cleanupFiles(r), 500, << >>, "Model file not found")
             EXCEPT !.stage = "done"]
    ELSE IF ~installed.bin
    THEN [Respond(cleanupFiles(r), 500, << >>, "Whisper binary not found")
             EXCEPT !.stage = "done"]
    ELSE [r EXCEPT !.stage = "whisper", !.whRun = TRUE, !.whTimer = TRUE]

\* Variant of OnFfmpegExit: the callback resolves whatever err is, and the
\* handler goes on even though the timer has rejected.
OnFfmpegExitResolves(r, kind) ==
    AfterConversion([r EXCEPT !.ffRun = FALSE, !.ffTimer = FALSE, !.ffExit = kind])

\* The execFile callback of ffmpeg: clearTimeout, then reject(err) or
\* resolve().  Settling has an effect only while the promise is pending, that
\* is while the handler is still at its await: then the catch block runs, or
\* the handler goes on to the checks and whisper-cli.
OnFfmpegExit(r, kind) ==
    LET q == [r EXCEPT !.ffRun = FALSE, !.ffTimer = FALSE, !.ffExit = kind] IN
    IF r.stage # "ffmpeg" THEN q
    ELSE IF kind # "ok" THEN CatchBlock(q, kind)
    ELSE AfterConversion(q)

\* The ffmpeg timer's callback: reject, so the catch block runs.
OnFfmpegTimeout(r) ==
    CatchBlock([r EXCEPT !.ffTimer = FALSE, !.timedOut = "ffmpeg"], "timeout")

\* The whisper timer's callback: cleanupFiles and reject, so the catch block runs.
OnWhisperTimeout(r) ==
    CatchBlock(cleanupFiles([r EXCEPT !.whTimer = FALSE, !.timedOut = "whisper"]),
               "timeout")

\* const transcript = stdout.trim()
Transcript(stdout) == Trim(stdout)

\* The handler up to its first await.  With an "audio" part in the body
\* multer has stored the raw artifact, and ffmpeg is started under its timer;
\* without one req.file is undefined and the handler answers 400 at once.
Handler(hasAudio) ==
    IF ~hasAudio
    THEN [Respond([FreeReq EXCEPT !.waiter = TRUE], 400, << >>,
                  "No audio file provided")
             EXCEPT !.stage = "done"]
    ELSE [FreeReq EXCEPT !.stage = "ffmpeg", !.raw = TRUE, !.ffRun = TRUE,
                         !.ffTimer = TRUE, !.waiter = TRUE]

\* A request reaches the handler in answer to the fetch of job j.  The body
\* is what arrives at the port: it carries the "audio" part or it does not.
Transcribe(j) ==
    /\ j.pc = "fetch"
    /\ j.req = 0
    /\ serverUp
    /\ FreeSlots # {}
    /\ \E hasAudio \in BOOLEAN :
       LET s == CHOOSE x \in FreeSlots : \A y \in FreeSlots : x <= y IN
       /\ reqs' = [reqs EXCEPT ![s] = Handler(hasAudio)]
       /\ jobs' = (jobs \ {j}) \cup {[j EXCEPT !.req = s]}
    /\ UNCHANGED <<recState, recording, session, chunkCounterRef, transcripts,
                   errors, hist, clientQueueVarsNoJobs, serverUp, installed,
                   expiries, lastDone>>

\* A running ffmpeg opens (creates) its output file wavPath.
FfmpegOpensOutput(s) ==
    /\ reqs[s].ffRun
    /\ installed.ffmpeg
    /\ ~reqs[s].ffOpened
    /\ reqs' = [reqs EXCEPT ![s].ffOpened = TRUE, ![s].wav = TRUE]
    /\ UNCHANGED <<recState, recording, session, chunkCounterRef, transcripts,
                   errors, hist, clientQueueVars, serverUp, installed,
                   expiries, lastDone>>

\* ffmpeg exits and, with the backend up, the execFile callback runs; it
\* settles the promise only if the timer has not settled it before.
FfmpegExit(s) ==
    /\ reqs[s].ffRun
    /\ \E kind \in {"ok", "ENOENT", "failed"} :
          /\ kind = "ENOENT" <=> ~installed.ffmpeg
          /\ kind = "ok" => reqs[s].ffOpened
          /\ reqs' = [reqs EXCEPT ![s] =
                         Settle(IF serverUp THEN OnFfmpegExit(@, kind)
                                ELSE [@ EXCEPT !.ffRun = FALSE])]
    /\ UNCHANGED <<recState, recording, session, chunkCounterRef, transcripts,
                   errors, hist, clientQueueVars, serverUp, installed,
                   expiries, lastDone>>

\* 300000 ms have passed with the ffmpeg promise pending.
FfmpegTimeout(s) ==
    /\ reqs[s].ffTimer
    /\ installed.ffmpeg
    /\ expiries < MaxExpiries
    /\ expiries' = expiries + 1
    /\ reqs' = [reqs EXCEPT ![s] = Settle(OnFfmpegTimeout(reqs[s]))]
    /\ UNCHANGED <<recState, recording, session, chunkCounterRef, transcripts,
                   errors, hist, clientQueueVars, serverUp, installed, lastDone>>

\* The execFile callback of whisper-cli: clearTimeout; on err cleanupFiles
\* and reject(err), which runs the catch block if the promise is still
\* pending; otherwise cleanupFiles and res.json with the trimmed stdout,
\* whether or not the timer has already rejected and the catch block answered.
OnWhisperExit(r, out) ==
    LET q == [r EXCEPT !.whRun = FALSE, !.whTimer = FALSE] IN
    IF out[1] # "ok"
    THEN IF r.stage = "whisper" THEN CatchBlock(cleanupFiles(q), out[1])
         ELSE cleanupFiles(q)
    ELSE [Respond(cleanupFiles(q), 200, Transcript(out[2]), "")
             EXCEPT !.stage = "done"]

\* A request of a backend process that has exited: its timers are gone and
\* its callbacks will not run; its subprocesses run on.
Orphaned(r) ==
    IF r.stage = "free" THEN r
    ELSE [r EXCEPT !.stage = "done", !.ffTimer = FALSE, !.whTimer = FALSE]

\* whisper-cli exits.  With the backend up the execFile callback runs.  Its
\* res.json on a response that has already been sent throws
\* ERR_HTTP_HEADERS_SENT out of the callback: an uncaught exception, which
\* ends the backend process.
WhisperExit(s) ==
    /\ reqs[s].whRun
    /\ \E out \in {<<"failed", << >> >>} \cup {<<"ok", o>> : o \in Outputs} :
          IF ~serverUp
          THEN /\ reqs' = [reqs EXCEPT ![s] = Settle([@ EXCEPT !.whRun = FALSE])]
               /\ UNCHANGED serverUp
          ELSE LET r == OnWhisperExit(reqs[s], out) IN
               IF r.responses >= 2
               THEN /\ serverUp' = FALSE
                    /\ reqs' = [t \in Slots |->
                                  IF t = s THEN r ELSE Settle(Orphaned(reqs[t]))]
               ELSE /\ reqs' = [reqs EXCEPT ![s] = Settle(r)]
                    /\ UNCHANGED serverUp
    /\ UNCHANGED <<recState, recording, session, chunkCounterRef, transcripts,
                   errors, hist, clientQueueVars, installed, expiries, lastDone>>

\* 540000 ms have passed with the whisper promise pending.
WhisperTimeout(s) ==
    /\ reqs[s].whTimer
    /\ expiries < MaxExpiries
    /\ expiries' = expiries + 1
    /\ reqs' = [reqs EXCEPT ![s] = Settle(OnWhisperTimeout(reqs[s]))]
    /\ UNCHANGED <<recState, recording, session, chunkCounterRef, transcripts,
                   errors, hist, clientQueueVars, serverUp, installed, lastDone>>

FetchResolves == \E j \in jobs : FetchResolve(j)

ClientAborts == \E j \in jobs : ClientAbort(j)

NetworkErrors == \E j \in jobs : NetworkError(j)

BackoffEnds == \E j \in jobs : BackoffDone(j)

RequestArrives == \E j \in jobs : Transcribe(j)

\* ------------------------------------------------------------------ Next
Next ==
    \/ StartRecording
    \/ ChunkArrives
    \/ StopRecording
    \/ FinalChunk
    \/ OnStop
    \/ TimerFires
    \/ FetchResolves
    \/ ClientAborts
    \/ NetworkErrors
    \/ BackoffEnds
    \/ RequestArrives
    \/ \E s \in Slots : FfmpegOpensOutput(s)
    \/ \E s \in Slots : FfmpegExit(s)
    \/ \E s \in Slots : FfmpegTimeout(s)
    \/ \E s \in Slots : WhisperExit(s)
    \/ \E s \in Slots : WhisperTimeout(s)

Spec == Init /\ [][Next]_vars

\* The event loop runs every callback that is due, a fetch settles, a stopped
\* recorder delivers its last events, and a subprocess ends.  The user's
\* clicks, the timeslice chunks and the expiry of a deadline are under no
\* obligation to happen.
Fairness ==
    /\ WF_vars(FinalChunk)
    /\ WF_vars(OnStop)
    /\ WF_vars(TimerFires)
    /\ WF_vars(FetchResolves)
    /\ WF_vars(NetworkErrors)
    /\ WF_vars(BackoffEnds)
    /\ WF_vars(RequestArrives)
    /\ WF_vars(\E s \in Slots : FfmpegExit(s))
    /\ WF_vars(\E s \in Slots : WhisperExit(s))

FairSpec == Spec /\ Fairness

\* ------------------------------------------- the Electron-embedded handler
\* expressApp.post("/transcribe") of the Electron main process, src/unnamed/
\* part_000.  The paths of ffmpeg, whisper-cli and the model are resolved
\* from the app's resources; `installed` says whether what they resolve to
\* exists.

\* cleanupFiles(inputPath, wavPath) of the Electron main process
ElectronCleanupFiles(r) == [r EXCEPT !.raw = FALSE, !.wav = FALSE]

\* The message of the Electron handler's catch block.
ElectronCatchMessage(kind) ==
    CASE kind = "timeout" -> "Processing timeout"
      [] kind = "ENOENT" -> "Required tool not found"
      [] OTHER -> "Command failed"

\* catch (e) of the Electron handler
ElectronCatchBlock(r, kind) ==
    [Respond(ElectronCleanupFiles(r), 500, << >>, ElectronCatchMessage(kind))
        EXCEPT !.stage = "done"]

\* The Electron handler up to its first await.
ElectronHandler(hasAudio) ==
    IF ~hasAudio
    THEN [Respond([FreeReq EXCEPT !.waiter = TRUE], 400, << >>,
                  "No audio file provided")
             EXCEPT !.stage = "done"]
    ELSE [FreeReq EXCEPT !.stage = "ffmpeg", !.raw = TRUE, !.ffRun = TRUE,
                         !.ffTimer = TRUE, !.waiter = TRUE]

\* Variant of ElectronAfterConversion: without the check for the binary.
ElectronAfterConversionNoBinCheck(r) ==
    IF ~installed.model
    THEN [Respond(ElectronCleanupFiles(r), 500, << >>,
                  "Model file not found in the app bundle")
             EXCEPT !.stage = "done"]
    ELSE [r EXCEPT !.stage = "whisper", !.whRun = TRUE, !.whTimer = TRUE]

\* The Electron handler after ffmpeg has exited zero: the two existence
\* checks, then whisper-cli under its timer.
ElectronAfterConversion(r) ==
    IF ~installed.model
    THEN [Respond(ElectronCleanupFiles(r), 500, << >>,
                  "Model file not found in the app bundle")
             EXCEPT !.stage = "done"]
    ELSE IF ~installed.bin
    THEN [Respond(ElectronCleanupFiles(r), 500, << >>,
                  "Whisper binary not found in the app bundle")
             EXCEPT !.stage = "done"]
    ELSE [r EXCEPT !.stage = "whisper", !.whRun = TRUE, !.whTimer = TRUE]

\* The ffmpeg execFile callback of the Electron handler.
ElectronOnFfmpegExit(r, kind) ==
    LET q == [r EXCEPT !.ffRun = FALSE, !.ffTimer = FALSE, !.ffExit = kind] IN
    IF r.stage # "ffmpeg" THEN q
    ELSE IF kind # "ok" THEN ElectronCatchBlock(q, kind)
    ELSE ElectronAfterConversion(q)

\* The ffmpeg timer's callback of the Electron handler.
ElectronOnFfmpegTimeout(r) ==
    ElectronCatchBlock([r EXCEPT !.ffTimer = FALSE, !.timedOut = "ffmpeg"], "timeout")

\* The whisper timer's callback of the Electron handler.
ElectronOnWhisperTimeout(r) ==
    ElectronCatchBlock(
        ElectronCleanupFiles([r EXCEPT !.whTimer = FALSE, !.timedOut = "whisper"]),
        "timeout")

\* The whisper execFile callback of the Electron handler.
ElectronOnWhisperExit(r, out) ==
    LET q == [r EXCEPT !.whRun = FALSE, !.whTimer = FALSE] IN
    IF out[1] # "ok"
    THEN IF r.stage = "whisper" THEN ElectronCatchBlock(ElectronCleanupFiles(q), out[1])
         ELSE ElectronCleanupFiles(q)
    ELSE [Respond(ElectronCleanupFiles(q), 200, Trim(out[2]), "")
             EXCEPT !.stage = "done"]

\* ------------------------------------------------ the two handlers in step
\* Request 1 is served by the handler of backend/server.js and request 2 by
\* the Electron handler; every external event reaches both.
Standalone == 1

Embedded == 2

clientVars == <<recState, recording, session, chunkCounterRef, processingQueueRef,
                isProcessingRef, processing, processingChunk, transcripts,
                errors, jobs, timers, hist, lastDone>>

PairInit == Init /\ serverUp

\* The same request arrives at both handlers.
PairArrive ==
    /\ reqs[Standalone].stage = "free" /\ reqs[Embedded].stage = "free"
    /\ \E hasAudio \in BOOLEAN :
          reqs' = [reqs EXCEPT ![Standalone] = Handler(hasAudio),
                               ![Embedded] = ElectronHandler(hasAudio)]
    /\ UNCHANGED <<clientVars, serverUp, installed, expiries>>

\* Both ffmpeg subprocesses open their output file.
PairFfmpegOpensOutput ==
    /\ reqs[Standalone].ffRun /\ reqs[Embedded].ffRun
    /\ installed.ffmpeg
    /\ ~reqs[Standalone].ffOpened /\ ~reqs[Embedded].ffOpened
    /\ reqs' = [reqs EXCEPT ![Standalone].ffOpened = TRUE, ![Standalone].wav = TRUE,
                            ![Embedded].ffOpened = TRUE, ![Embedded].wav = TRUE]
    /\ UNCHANGED <<clientVars, serverUp, installed, expiries>>

\* Both ffmpeg subprocesses exit the same way.
PairFfmpegExit ==
    /\ reqs[Standalone].ffRun /\ reqs[Embedded].ffRun
    /\ \E kind \in {"ok", "ENOENT", "failed"} :
          /\ kind = "ENOENT" <=> ~installed.ffmpeg
          /\ kind = "ok" => reqs[Standalone].ffOpened /\ reqs[Embedded].ffOpened
          /\ reqs' = [reqs EXCEPT
                         ![Standalone] = OnFfmpegExit(@, kind),
                         ![Embedded] = ElectronOnFfmpegExit(@, kind)]
    /\ UNCHANGED <<clientVars, serverUp, installed, expiries>>

\* Both 300000 ms timers fire.
PairFfmpegTimeout ==
    /\ reqs[Standalone].ffTimer /\ reqs[Embedded].ffTimer
    /\ installed.ffmpeg
    /\ reqs' = [reqs EXCEPT ![Standalone] = OnFfmpegTimeout(@),
                            ![Embedded] = ElectronOnFfmpegTimeout(@)]
    /\ UNCHANGED <<clientVars, serverUp, installed, expiries>>

\* Both whisper-cli subprocesses exit the same way with the same output.
PairWhisperExit ==
    /\ reqs[Standalone].whRun /\ reqs[Embedded].whRun
    /\ \E out \in {<<"failed", << >> >>} \cup {<<"ok", o>> : o \in Outputs} :
          reqs' = [reqs EXCEPT ![Standalone] = OnWhisperExit(@, out),
                               ![Embedded] = ElectronOnWhisperExit(@, out)]
    /\ UNCHANGED <<clientVars, serverUp, installed, expiries>>

\* Both 540000 ms timers fire.
PairWhisperTimeout ==
    /\ reqs[Standalone].whTimer /\ reqs[Embedded].whTimer
    /\ reqs' = [reqs EXCEPT ![Standalone] = OnWhisperTimeout(@),
                            ![Embedded] = ElectronOnWhisperTimeout(@)]
    /\ UNCHANGED <<clientVars, serverUp, installed, expiries>>

\* The client of both requests receives the response.
PairFetchResolve ==
    /\ reqs[Standalone].waiter /\ reqs[Embedded].waiter
    /\ reqs[Standalone].resp.status # 0 /\ reqs[Embedded].resp.status # 0
    /\ reqs' = [reqs EXCEPT ![Standalone] = [@ EXCEPT !.waiter = FALSE, !.resp = NoResp],
                            ![Embedded] = [@ EXCEPT !.waiter = FALSE, !.resp = NoResp]]
    /\ UNCHANGED <<clientVars, serverUp, installed, expiries>>

\* The client of both requests gives up after its 600000 ms.
PairClientAbort ==
    /\ reqs[Standalone].waiter /\ reqs[Embedded].waiter
    /\ reqs[Standalone].stage = "whisper" /\ reqs[Embedded].stage = "whisper"
    /\ reqs' = [reqs EXCEPT ![Standalone].waiter = FALSE, ![Embedded].waiter = FALSE]
    /\ UNCHANGED <<clientVars, serverUp, installed, expiries>>

PairNext ==
    \/ PairArrive
    \/ PairFetchResolve
    \/ PairClientAbort
    \/ PairFfmpegOpensOutput
    \/ PairFfmpegExit
    \/ PairFfmpegTimeout
    \/ PairWhisperExit
    \/ PairWhisperTimeout

PairSpec == PairInit /\ [][PairNext]_vars

\* ================================================================ claims
InBacklog(u) == \E i \in DOMAIN processingQueueRef : processingQueueRef[i].uid = u

InFlight(u) == \E j \in jobs : j.uid = u

\* Subprocesses started by the handler that are running.
RunningProcs ==
    Cardinality({s \in Slots : reqs[s].ffRun}) + Cardinality({s \in Slots : reqs[s].whRun})

\* C1: at most one processChunk execution is active at any time, whatever the
\* interleaving of chunk arrivals, onstop, job completion, the 500 ms timer
\* and startRecording.
C1_OneJobInFlight == Cardinality(jobs) <= 1

\* C1 witness: a second recording has delivered a chunk into the backlog
\* while a job of the first recording is in flight.
C1_Witness ==
    /\ session = 2
    /\ \E j \in jobs : hist[j.uid].session = 1
    /\ Cardinality(jobs) = 1
    /\ Len(processingQueueRef) >= 1
    /\ isProcessingRef

\* C2: at most one subprocess (ffmpeg or whisper-cli) started by the handler
\* runs at any time.
C2_OneSubprocess == RunningProcs <= 1

\* C3: once an invocation has responded, its raw artifact and its .wav
\* artifact are absent, and stay absent.
C3_ArtifactsAbsentAfterResponse ==
    \A s \in Slots : reqs[s].responses >= 1 => ~reqs[s].raw /\ ~reqs[s].wav

\* C4: a job fails only after exactly MAX_RETRIES fetches (when a failed job
\* is the one that ended last, it had made MAX_RETRIES fetches); no job ever
\* makes more; and the step that fails it appends exactly one ErrorRecord,
\* which carries the job's chunk number.
C4_FailsAfterMaxRetries ==
    /\ [](\A j \in jobs : j.sent \in 1..MAX_RETRIES)
    /\ [](\A u \in DOMAIN hist :
            hist[u].status = "Failed" =>
                /\ lastDone.uid = u => lastDone.attempts = MAX_RETRIES
                /\ hist[u].errs = 1
                /\ hist[u].frags = 0)
    /\ [][\A u \in DOMAIN hist :
            (hist[u].status # "Failed" /\ hist'[u].status = "Failed") =>
                /\ Len(errors') = Len(errors) + 1
                /\ SubSeq(errors', 1, Len(errors)) = errors
                /\ errors'[Len(errors')].chunk = hist[u].chunkNumber
                /\ errors'[Len(errors')].uid = u]_vars

\* C4 witness: a chunk has failed after three fetches and its ErrorRecord is
\* the last of the list.
C4_Witness ==
    \E u \in DOMAIN hist :
        /\ hist[u].status = "Failed"
        /\ lastDone.uid = u /\ lastDone.attempts = MAX_RETRIES
        /\ errors # << >>
        /\ errors[Len(errors)].uid = u

\* C5: every chunk pushed to the backlog is in the backlog, in flight, or has
\* reached its terminal outcome: none is skipped.
C5_NoChunkSkipped ==
    \A u \in DOMAIN hist :
        InBacklog(u) \/ InFlight(u) \/ hist[u].status \in {"Succeeded", "Failed"}

\* C6: within one recording session the backlog is held in increasing
\* sequence-number order and every chunk already dequeued has a smaller
\* sequence number than every chunk still in the backlog.
C6_DequeuedInOrder ==
    /\ \A i, k \in DOMAIN processingQueueRef :
          i < k => processingQueueRef[i].chunkNumber < processingQueueRef[k].chunkNumber
    /\ \A i \in DOMAIN processingQueueRef : \A u \in DOMAIN hist :
          (/\ hist[u].session = hist[processingQueueRef[i].uid].session
           /\ hist[u].status # "Queued")
          => hist[u].chunkNumber < processingQueueRef[i].chunkNumber

\* C6 witness: two chunks arrived while the first was in flight, and the
\* second is now in flight with the third still in the backlog.
C6_Witness ==
    /\ Len(processingQueueRef) >= 1
    /\ \E j \in jobs :
          /\ j.chunkNumber = 2
          /\ hist[j.uid].session = hist[processingQueueRef[1].uid].session
          /\ processingQueueRef[1].chunkNumber = 3

\* C7: the transcript list is in strictly increasing chunk-number order.
C7_TranscriptsOrdered ==
    \A i, k \in DOMAIN transcripts :
        i < k => transcripts[i].chunk < transcripts[k].chunk

\* C8: no fragment with empty or whitespace-only text is in the transcript
\* list, and a 200 response with such a transcript is a failed attempt: it
\* appends no fragment and either starts the backoff wait or, on the final
\* attempt, records the ErrorRecord.
C8_EmptyOutputFails ==
    /\ [](\A i \in DOMAIN transcripts : Trim(transcripts[i].text) # << >>)
    /\ [][\A j \in jobs :
            (/\ j.pc = "fetch" /\ j.req # 0
             /\ reqs[j.req].waiter
             /\ reqs[j.req].resp.status = 200
             /\ Trim(reqs[j.req].resp.transcript) = << >>
             /\ j \notin jobs')
            => /\ transcripts' = transcripts
               /\ IF j.attempt = MAX_RETRIES
                  THEN /\ Len(errors') = Len(errors) + 1
                       /\ errors'[Len(errors')].uid = j.uid
                       /\ ~\E k \in jobs' : k.uid = j.uid
                  ELSE \E k \in jobs' :
                         /\ k.uid = j.uid /\ k.attempt = j.attempt
                         /\ k.pc = "backoff"]_vars

\* C8 witness: whisper-cli printed only whitespace on the final attempt and
\* the chunk failed with the empty-transcript error.
C8_Witness ==
    \E i \in DOMAIN errors :
        /\ errors[i].error = "Empty transcript received"
        /\ hist[errors[i].uid].status = "Failed"

\* C9: a job that has succeeded, on whichever attempt, has recorded exactly
\* one fragment and no ErrorRecord, and is no longer running: no further
\* attempt is made.
C9_SuccessIsFinal ==
    \A u \in DOMAIN hist :
        hist[u].status = "Succeeded" =>
            /\ hist[u].frags = 1
            /\ hist[u].errs = 0
            /\ lastDone.uid = u => lastDone.attempts \in 1..MAX_RETRIES
            /\ ~InFlight(u)
            /\ Cardinality({i \in DOMAIN transcripts : transcripts[i].uid = u}) <= 1
            /\ \A i \in DOMAIN errors : errors[i].uid # u

\* C9 witness: a chunk has succeeded on its second attempt and its fragment
\* is in the list.
C9_Witness ==
    \E u \in DOMAIN hist :
        /\ hist[u].status = "Succeeded"
        /\ lastDone.uid = u /\ lastDone.attempts = 2
        /\ \E i \in DOMAIN transcripts : transcripts[i].uid = u

\* C10: the subprocess of a stage whose timer has fired is not running.
C10_TimedOutStageKilled ==
    \A s \in Slots :
        /\ reqs[s].timedOut = "ffmpeg" => ~reqs[s].ffRun
        /\ reqs[s].timedOut = "whisper" => ~reqs[s].whRun

\* The queue is idle with nothing left to do.
Drained ==
    /\ ~isProcessingRef
    /\ jobs = {}
    /\ processingQueueRef = << >>
    /\ timers = 0

\* C11: stopRecording leaves the job in flight and the backlog as they are;
\* no step other than startRecording takes a chunk out of the backlog or out
\* of flight without a terminal outcome; and once recording has been stopped,
\* unless it is started again, the final chunk is delivered and the queue
\* drains and becomes idle.
C11_StopDrainsBacklog ==
    /\ [][(recording /\ ~recording') =>
            /\ jobs' = jobs
            /\ processingQueueRef' = processingQueueRef
            /\ hist' = hist]_vars
    /\ [][~(~recording /\ recording') =>
            \A u \in DOMAIN hist :
                (InBacklog(u) \/ InFlight(u)) =>
                    \/ InBacklog(u)' \/ InFlight(u)'
                    \/ hist'[u].status \in {"Succeeded", "Failed"}]_vars
    /\ (~recording /\ recState # "none")
          ~> (recording \/ (Drained /\ recState = "inactive"))

\* C11 witness: recording has been stopped with chunk 1 in flight and chunk 2
\* in the backlog, and the final chunk 3 has joined the backlog behind it.
C11_Witness ==
    /\ ~recording
    /\ recState = "inactive"
    /\ \E j \in jobs : j.chunkNumber = 1 /\ hist[j.uid].session = session
    /\ Len(processingQueueRef) = 2
    /\ processingQueueRef[1].chunkNumber = 2
    /\ processingQueueRef[2].chunkNumber = 3

\* The ErrorRecords of chunk u in a list of ErrorRecords.
ErrorsOf(e, u) == Cardinality({i \in DOMAIN e : e[i].uid = u})

\* C12: the step that fails a chunk leaves exactly one ErrorRecord for it in
\* the error list, and no later step other than startRecording (which clears
\* the list) removes or duplicates that record.
C12_ErrorRecordKept ==
    [][~(~recording /\ recording') =>
        \A u \in DOMAIN hist :
            /\ (hist[u].status # "Failed" /\ hist'[u].status = "Failed")
                  => ErrorsOf(errors', u) = 1
            /\ (hist[u].status = "Failed" /\ ErrorsOf(errors, u) = 1)
                  => ErrorsOf(errors', u) = 1]_vars

C15_NumbersNeverReused ==
    \A u, v \in DOMAIN hist :
        u # v => hist[u].chunkNumber # hist[v].chunkNumber

\* C16: no /transcribe request answers 200 with a transcript that is empty
\* or whitespace only.
C16_NoEmptySuccessResponse ==
    \A s \in Slots :
        reqs[s].resp.status = 200 => Trim(reqs[s].resp.transcript) # << >>

\* The ErrorRecords of e before position i that carry chunk number n.
RemovedBefore(e, i, n) == Cardinality({k \in 1..(i - 1) : e[k].chunk = n})

\* C17: the step that records the success of a chunk numbered n appends one
\* fragment for it to the end of the transcript list and leaves the earlier
\* fragments as they are; afterwards no ErrorRecord carries number n, and
\* the ErrorRecords of other numbers are all still there, in their order.
C17_RecordSuccessFrame ==
    [][\A u \in DOMAIN hist :
        (hist[u].status # "Succeeded" /\ hist'[u].status = "Succeeded") =>
            LET n == hist[u].chunkNumber IN
            /\ Len(transcripts') = Len(transcripts) + 1
            /\ SubSeq(transcripts', 1, Len(transcripts)) = transcripts
            /\ transcripts'[Len(transcripts')].chunk = n
            /\ transcripts'[Len(transcripts')].uid = u
            /\ \A i \in DOMAIN errors' : errors'[i].chunk # n
            /\ Len(errors') = Len(errors) - RemovedBefore(errors, Len(errors) + 1, n)
            /\ \A i \in DOMAIN errors :
                  errors[i].chunk # n =>
                      errors'[i - RemovedBefore(errors, i, n)] = errors[i]]_vars

\* C17 witness: the success recorded last removed an ErrorRecord carrying its
\* chunk number, and its fragment is the last of the list.
C17_Witness ==
    /\ lastDone.uid \in DOMAIN hist
    /\ hist[lastDone.uid].status = "Succeeded"
    /\ lastDone.removed = 1
    /\ transcripts # << >>
    /\ transcripts[Len(transcripts)].uid = lastDone.uid

\* The attempt of job j that is waiting for its fetch ends in this step
\* without a success.
AttemptFails(j) ==
    /\ j.pc = "fetch"
    /\ ~\E k \in jobs' : k.uid = j.uid /\ k.attempt = j.attempt /\ k.pc = "fetch"
    /\ hist'[j.uid].status # "Succeeded"

\* The attempt of job j ends by the client's abort, or by a response that
\* reports a stage timeout of the server.
TimesOut(j) ==
    /\ AttemptFails(j)
    /\ j.req # 0
    /\ \/ expiries' = expiries + 1
       \/ reqs[j.req].waiter /\ reqs[j.req].resp.error = "Processing timeout"

\* What every failed attempt is followed by: before the last attempt the
\* backoff wait of that attempt and no ErrorRecord, on the last attempt one
\* more ErrorRecord, for this chunk, and the end of the job.
FailureOutcome(j) ==
    IF j.attempt < MAX_RETRIES
    THEN /\ \E k \in jobs' :
               /\ k.uid = j.uid /\ k.attempt = j.attempt /\ k.sent = j.sent
               /\ k.pc = "backoff"
               /\ k.wait = IF j.attempt = 1 THEN 1000 ELSE 2000
         /\ errors' = errors
    ELSE /\ ~\E k \in jobs' : k.uid = j.uid
         /\ Len(errors') = Len(errors) + 1
         /\ SubSeq(errors', 1, Len(errors)) = errors
         /\ errors'[Len(errors')].uid = j.uid
         /\ hist'[j.uid].status = "Failed"

\* C18: an attempt that ends by a timeout (the client's abort, or a stage
\* timeout reported by the server) is followed by what follows every failed
\* attempt, and the ErrorRecord of a final attempt that timed out differs
\* only by its message: "Request timeout" for the abort, the server's
\* timeout message otherwise.
C18_TimeoutRetriedAlike ==
    [][\A j \in jobs :
        /\ AttemptFails(j) => FailureOutcome(j)
        /\ (TimesOut(j) /\ j.attempt = MAX_RETRIES) =>
              errors'[Len(errors')].error =
                  IF expiries' = expiries + 1 THEN "Request timeout"
                  ELSE "Processing timeout"]_vars

\* C18 witness: the final attempt of a chunk ended by the client's abort and
\* the chunk has failed with the timeout message.
C18_Witness ==
    /\ errors # << >>
    /\ errors[Len(errors)].error = "Request timeout"
    /\ hist[errors[Len(errors)].uid].status = "Failed"
    /\ lastDone.uid = errors[Len(errors)].uid
    /\ lastDone.attempts = MAX_RETRIES

\* The fetch of job j is about to receive the handler's answer that the
\* model file or the whisper-cli binary is missing.
ResourceMissing(j) ==
    /\ j.pc = "fetch" /\ j.req # 0
    /\ reqs[j.req].waiter
    /\ reqs[j.req].resp.status = 500
    /\ reqs[j.req].resp.error \in {"Model file not found", "Whisper binary not found"}

\* C19: with the model file or the binary absent no request ever starts
\* whisper-cli or answers 200; the attempt that receives the 500 answer of
\* the failed check is followed by what follows every failed attempt
\* (backoff, or on attempt 3 the ErrorRecord), and when the job has failed
\* with chunks waiting, the queue goes on to the next one.
C19_MissingResourceRetried ==
    /\ []((~installed.model \/ ~installed.bin) =>
            \A s \in Slots :
                /\ ~reqs[s].whRun
                /\ reqs[s].stage # "whisper"
                /\ reqs[s].resp.status \in {0, 400, 500})
    /\ [][\A j \in jobs :
            (ResourceMissing(j) /\ AttemptFails(j)) =>
                /\ FailureOutcome(j)
                /\ (j.attempt = MAX_RETRIES /\ processingQueueRef # << >>) =>
                      /\ processingQueueRef' = processingQueueRef
                      /\ isProcessingRef'
                      /\ timers' = timers + 1]_vars

\* C19 witness: the model file is absent, chunk 1 has failed for it after three
\* attempts, and chunk 2 is being attempted.
C19_Witness ==
    /\ ~installed.model
    /\ errors # << >>
    /\ errors[1].error = "Model file not found"
    /\ errors[1].chunk = 1
    /\ lastDone.attempts = MAX_RETRIES
    /\ \E j \in jobs : j.chunkNumber = 2 /\ j.req # 0 /\ hist[j.uid].session = session

\* C20: whisper-cli is started only in the step in which the ffmpeg of the
\* same request, still awaited and not timed out, exits zero; while whisper-cli
\* runs, the request's ffmpeg has ended with success; and a request whose
\* ffmpeg exited non-zero or timed out has answered with an error and runs
\* no whisper-cli.
C20_InferenceAfterConversion ==
    /\ [][\A s \in Slots :
            (~reqs[s].whRun /\ reqs'[s].whRun) =>
                /\ reqs[s].stage = "ffmpeg"
                /\ reqs[s].ffRun /\ ~reqs'[s].ffRun
                /\ reqs[s].timedOut = "none"
                /\ reqs[s].responses = 0
                /\ reqs'[s].ffExit = "ok"]_vars
    /\ [](\A s \in Slots :
            /\ (reqs[s].whRun \/ reqs[s].stage = "whisper") =>
                  /\ reqs[s].ffExit = "ok"
                  /\ ~reqs[s].ffRun
                  /\ reqs[s].timedOut # "ffmpeg"
            /\ (reqs[s].ffExit \in {"failed", "ENOENT"} \/ reqs[s].timedOut = "ffmpeg") =>
                  /\ ~reqs[s].whRun
                  /\ reqs[s].stage = "done"
                  /\ reqs[s].responses >= 1
                  /\ reqs[s].resp.status \in {0, 500})

\* C20 witness: the ffmpeg of a request timed out and later exited zero, and
\* no whisper-cli runs for that request.
C20_Witness ==
    \E s \in Slots :
        /\ reqs[s].timedOut = "ffmpeg"
        /\ reqs[s].ffExit = "ok"
        /\ ~reqs[s].whRun
        /\ reqs[s].stage = "done"

\* C21: over its whole life a chunk has at most one fragment or ErrorRecord
\* recorded for it, and the step that records it ends the job from the fetch
\* of its current attempt: a request whose fetch has failed or was aborted
\* records nothing, whenever it completes.
C21_OneOutcomePerJob ==
    /\ [](\A u \in DOMAIN hist : hist[u].frags + hist[u].errs <= 1)
    /\ [][\A u \in DOMAIN hist :
            (hist'[u].frags # hist[u].frags \/ hist'[u].errs # hist[u].errs) =>
                /\ hist[u].frags = 0 /\ hist[u].errs = 0
                /\ ~\E k \in jobs' : k.uid = u
                /\ \E j \in jobs :
                      /\ j.uid = u /\ j.pc = "fetch"
                      /\ (j.req # 0) =>
                            (reqs[j.req].waiter /\ ~reqs'[j.req].waiter)]_vars
    /\ [][((\A j \in jobs : j.pc = "fetch" => j \in jobs')
                /\ recording' = recording) =>
            (transcripts' = transcripts /\ errors' = errors)]_vars

\* C21 witness: the first attempt of a chunk was aborted by the client with
\* whisper-cli of its request still running, and the chunk has succeeded on
\* its second attempt with one fragment.
C21_Witness ==
    /\ expiries = 1
    /\ \E s \in Slots :
          /\ reqs[s].whRun /\ ~reqs[s].waiter
          /\ reqs[s].timedOut = "none" /\ reqs[s].responses = 0
    /\ lastDone.uid \in DOMAIN hist
    /\ lastDone.attempts = 2
    /\ hist[lastDone.uid].status = "Succeeded"
    /\ hist[lastDone.uid].frags = 1 /\ hist[lastDone.uid].errs = 0

\* C22: the step that ends the job in flight with the backlog empty leaves
\* the queue idle, and whenever no job is in flight and no drain step is
\* scheduled, the busy flag is false, `processing` is false and the
\* currently-processing chunk number is 0.
C22_IdleObservables ==
    (jobs = {} /\ timers = 0) =>
        /\ ~isProcessingRef
        /\ ~processing
        /\ processingChunk = 0

\* C23: res.json / res.status().json is called at most once per request.
C23_OneResponsePerRequest == \A s \in Slots : reqs[s].responses <= 1

\* C24: between event handlers, a non-empty backlog implies that
\* isProcessingRef is true and that a job is in flight or the 500 ms timer
\* is pending.
C24_NoChunkStranded ==
    processingQueueRef # << >> =>
        /\ isProcessingRef
        /\ jobs # {} \/ timers > 0

\* C24 witness: a job has ended with chunks waiting and the next drain step
\* is scheduled, no job being in flight.
C24_Witness ==
    /\ processingQueueRef # << >>
    /\ jobs = {}
    /\ timers = 1
    /\ isProcessingRef

\* C25: the transcript list and the error list hold outcomes of chunks of
\* the latest recording only.
C25_SessionIsolation ==
    /\ \A i \in DOMAIN transcripts : hist[transcripts[i].uid].session = session
    /\ \A i \in DOMAIN errors : hist[errors[i].uid].session = session

\* What the claim compares of a request: everything but the text of the
\* error message.
Observed(r) == [r EXCEPT !.resp.error = ""]

\* C26: fed the same events, the handler of backend/server.js and the
\* Electron handler agree at every point on the response sent (its status
\* and transcript) and on the number of res.json calls, on which subprocess
\* runs and which timer is armed, and on which artifacts exist.
C26_HandlersEquivalent == Observed(reqs[Standalone]) = Observed(reqs[Embedded])

\* C26 witness: the model file is absent, and both handlers have answered 500
\* after ffmpeg, with different messages, having deleted both artifacts.
C26_Witness ==
    /\ ~installed.model
    /\ reqs[Standalone].resp.status = 500 /\ reqs[Embedded].resp.status = 500
    /\ reqs[Standalone].resp.error # reqs[Embedded].resp.error
    /\ reqs[Standalone].ffExit = "ok" /\ reqs[Embedded].ffExit = "ok"
    /\ ~reqs[Standalone].wav /\ ~reqs[Embedded].wav

====
